---------------------------- MODULE Spec2Model ----------------------------
(***************************************************************************)
(* The interactive curved-MPR session of AortaCurvedMPR.py and             *)
(* muscleCurvedMPR.py (class InteractiveCurvedMPR in both files).          *)
(*                                                                         *)
(* The viewer object is the record `self`; every GUI callback (on_click,   *)
(* generate_mpr, clear_points, undo_last, update_curve_factor) is an       *)
(* operator from the object before the call to the object after it, and    *)
(* one action of Next.                                                     *)
(*                                                                         *)
(* Numbers.  numpy's floats are fixed-point integers with SCALE units per  *)
(* 1.0 (coordinates, unit vectors and intensities alike).  The "+ 1e-10"   *)
(* guards of the source are kept for what they do: x / (0 + 1e-10) is 0    *)
(* for x = 0, and the guard is invisible for a non-zero denominator.       *)
(* The curvature is held in hundredths (0.30 is 30), which is exact for    *)
(* the slider's 0.05 steps.                                                *)
(*                                                                         *)
(* Libraries.  scipy's splprep/splev and matplotlib's Slider are not code  *)
(* of the repository; they are modelled by their contract at the call      *)
(* site: splprep parameterises the control points by normalised            *)
(* cumulative chord length and raises when two consecutive control points  *)
(* coincide; splev(u, tck) passes through control point i at u[i] (so      *)
(* through the first at 0 and the last at 1).  Between control points the  *)
(* model evaluates the degree-1 interpolant.                               *)
(*                                                                         *)
(* Display.  ax_mpr holds what the reconstruction axes show: the           *)
(* placeholder, the warning, the bare title after a clear, or the enhanced *)
(* image with its info box.  Colours, fonts, titles and the elapsed-time   *)
(* text are not modelled.  The three preview lines are projections of one  *)
(* 3D curve, kept once as `line`; the three marker sets are `points_plot`. *)
(***************************************************************************)
EXTENDS Integers, Sequences, FiniteSets, TLC

(* ------------------------------ bounds -------------------------------- *)

\* Landmarks a session may hold before on_click is disabled in the model.
MaxPoints == 3

\* Fixed-point units per 1.0 .
SCALE == 60

\* Samples of the preview curve (the source uses np.linspace(0, 1, 100)).
PreviewSamples == 3

\* Samples of the high-resolution curve (350 in the aorta viewer, 300 in the
\* spine viewer); the spine viewer uses one sample fewer than the aorta viewer.
MprPointsAorta == 4

\* Cross-section rows of the reconstructed image (120 aorta, 140 spine); the
\* spine viewer uses one row more than the aorta viewer.
MprHeightAorta == 2

\* Vertebra meshes found in the spine folder of the focus-navigation viewer, at
\* most (more than the nine number keys can name).
MaxVertebrae == 10

(* ----------------------------- arithmetic ----------------------------- *)

Abs(x) == IF x < 0 THEN -x ELSE x

Min(a, b) == IF a < b THEN a ELSE b

Max(a, b) == IF a > b THEN a ELSE b

\* Division rounding toward zero (symmetric for negative numerators).
Div(a, b) == IF a >= 0 THEN a \div b ELSE -((-a) \div b)

RECURSIVE SqrtBetween(_, _, _)
SqrtBetween(n, lo, hi) ==
    IF lo >= hi THEN lo
    ELSE LET mid == (lo + hi + 1) \div 2
         IN  IF mid * mid <= n THEN SqrtBetween(n, mid, hi)
             ELSE SqrtBetween(n, lo, mid - 1)

\* floor(sqrt(n)) for n >= 0.
ISqrt(n) == SqrtBetween(n, 0, Min(n, 46340))

RECURSIVE IPow(_, _)
IPow(b, e) == IF e = 0 THEN 1 ELSE b * IPow(b, e - 1)

(* ------------------------------ vectors ------------------------------- *)

VAdd(a, b) == <<a[1] + b[1], a[2] + b[2], a[3] + b[3]>>

VSub(a, b) == <<a[1] - b[1], a[2] - b[2], a[3] - b[3]>>

\* v * (num / den)
VScale(v, num, den) == <<Div(v[1] * num, den), Div(v[2] * num, den), Div(v[3] * num, den)>>

Dot(a, b) == a[1] * b[1] + a[2] * b[2] + a[3] * b[3]

Cross(a, b) ==
    <<a[2] * b[3] - a[3] * b[2], a[3] * b[1] - a[1] * b[3], a[1] * b[2] - a[2] * b[1]>>

\* np.linalg.norm of a fixed-point vector, in fixed point.
Norm(v) == ISqrt(Dot(v, v))

\* v / (np.linalg.norm(v) + 1e-10): the zero vector stays the zero vector.
Normalized(v) == IF Norm(v) = 0 THEN <<0, 0, 0>> ELSE VScale(v, SCALE, Norm(v))

\* np.array(point, dtype=float)
ToFloat(p) == <<p[1] * SCALE, p[2] * SCALE, p[3] * SCALE>>

(* --------------------------- source volume ---------------------------- *)

\* self.data.shape: the extents of the working volume (zoom's output).
Shape == <<3, 3, 3>>

\* The voxel indices of the working volume.
Cells == (0 .. Shape[1] - 1) \X (0 .. Shape[2] - 1) \X (0 .. Shape[3] - 1)

\* A scan whose intensity differs in every voxel.
RampVolume == [c \in Cells |-> 1 + c[1] + 3 * c[2] + 9 * c[3]]

\* A scan with the same positive intensity in every voxel.
UniformVolume == [c \in Cells |-> 5]

\* The volumes a session may be constructed over (zoom's output).
RawVolumes == {RampVolume, UniformVolume}

SetMax(S) == CHOOSE m \in S : \A x \in S : x <= m

SetMin(S) == CHOOSE m \in S : \A x \in S : m <= x

VolMax(vol) == SetMax({vol[c] : c \in DOMAIN vol})

VolMin(vol) == SetMin({vol[c] : c \in DOMAIN vol})

\* NormalizeVolume that leaves a constant volume at its value.
NormalizeVolume_constant_kept(vol) ==
    LET lo == VolMin(vol)
        hi == VolMax(vol)
    IN  [c \in DOMAIN vol |->
            IF hi = lo THEN vol[c] * SCALE ELSE Div((vol[c] - lo) * SCALE, hi - lo)]

\* (data - data.min()) / (data.max() - data.min() + 1e-10)
NormalizeVolume(vol) ==
    LET lo == VolMin(vol)
        hi == VolMax(vol)
    IN  [c \in DOMAIN vol |->
            IF hi = lo THEN 0 ELSE Div((vol[c] - lo) * SCALE, hi - lo)]

(* ------------------------ the viewer's constants ---------------------- *)

Kinds == {"aorta", "spine"}

\* self.curve_factor at construction, in hundredths.
InitialCurveFactor(kind) == IF kind = "aorta" THEN 30 ELSE 40

\* self.mpr_height
MprHeight(kind) == IF kind = "aorta" THEN MprHeightAorta ELSE MprHeightAorta + 1

\* self.mpr_points
MprPoints(kind) == IF kind = "aorta" THEN MprPointsAorta ELSE MprPointsAorta - 1

\* The exponent of np.power(mpr_enhanced, .) as <<numerator, denominator>>:
\* 0.75 in the aorta viewer, 0.8 in the spine viewer.
Gamma(kind) == IF kind = "aorta" THEN <<3, 4>> ELSE <<4, 5>>

\* The '... Ready ...' placeholder setup_ui draws into ax_mpr.
ReadyDisplay == [kind |-> "ready"]

\* The red warning generate_mpr draws for fewer than 2 points.
WarningDisplay == [kind |-> "warning"]

\* ax_mpr after clear_points: cleared, a title only.
ClearedDisplay == [kind |-> "cleared"]

\* get_info_text: point count and curvature as shown in the banner.
get_info_text(s) == [n |-> Len(s.points), curvature |-> s.curve_factor]

\* InteractiveCurvedMPR.__init__ followed by setup_ui.
NewViewer(kind, raw) ==
    LET s0 == [kind          |-> kind,
               original_data |-> raw,
               data          |-> IF kind = "spine" /\ ~(VolMax(raw) > 0) THEN raw
                                 ELSE NormalizeVolume(raw),
               current_slice_ax  |-> Shape[3] \div 2,
               current_slice_cor |-> Shape[2] \div 2,
               current_slice_sag |-> Shape[1] \div 2,
               points        |-> <<>>,
               curve_factor  |-> InitialCurveFactor(kind),
               mpr_height    |-> MprHeight(kind),
               mpr_points    |-> MprPoints(kind)]
    IN  [kind          |-> s0.kind,
         original_data |-> s0.original_data,
         data          |-> s0.data,
         current_slice_ax  |-> s0.current_slice_ax,
         current_slice_cor |-> s0.current_slice_cor,
         current_slice_sag |-> s0.current_slice_sag,
         points        |-> s0.points,
         curve_factor  |-> s0.curve_factor,
         mpr_height    |-> s0.mpr_height,
         mpr_points    |-> s0.mpr_points,
         ax_mpr        |-> ReadyDisplay,
         line          |-> <<>>,
         points_plot   |-> <<>>,
         info_text     |-> get_info_text(s0)]

(* ----------------------------- PathBuilder ---------------------------- *)

\* points_arr = np.array(self.points, dtype=float)
points_arr(s) == [i \in 1 .. Len(s.points) |-> ToFloat(s.points[i])]

\* Perpendicular with the two branches of the axis test exchanged.
Perpendicular_branches_exchanged(direction) ==
    IF Abs(direction[1]) > Abs(direction[3])
    THEN <<0, -direction[3], direction[2]>>
    ELSE <<-direction[2], direction[1], 0>>

\* The perpendicular of the 2-point bulge, before normalisation.
Perpendicular(direction) ==
    IF Abs(direction[1]) > Abs(direction[3])
    THEN <<-direction[2], direction[1], 0>>
    ELSE <<0, -direction[3], direction[2]>>

\* BulgeOffset with the slider's initial value in place of self.curve_factor.
BulgeOffset_fixed_curvature(direction, curve_factor, num, den) ==
    LET perpendicular == Normalized(Perpendicular(direction))
    IN  VScale(perpendicular, Norm(direction) * 30 * num, SCALE * 100 * den)

\* perpendicular * np.linalg.norm(direction) * self.curve_factor * (num/den)
BulgeOffset(direction, curve_factor, num, den) ==
    LET perpendicular == Normalized(Perpendicular(direction))
    IN  VScale(perpendicular, Norm(direction) * curve_factor * num, SCALE * 100 * den)

\* BulgeControlPoints with the full bulge (the * 0.5 dropped) at the two
\* quarter points.
BulgeControlPoints_full_quarter_bulge(start, end, curve_factor) ==
    LET mid       == VScale(VAdd(start, end), 1, 2)
        direction == VSub(end, start)
        full      == BulgeOffset(direction, curve_factor, 1, 1)
    IN  << start,
           VAdd(VAdd(start, VScale(direction, 1, 4)), full),
           VAdd(mid, full),
           VAdd(VSub(end, VScale(direction, 1, 4)), full),
           end >>

\* The five control points built for exactly two landmarks.
BulgeControlPoints(start, end, curve_factor) ==
    LET mid       == VScale(VAdd(start, end), 1, 2)
        direction == VSub(end, start)
        half      == BulgeOffset(direction, curve_factor, 1, 2)
    IN  << start,
           VAdd(VAdd(start, VScale(direction, 1, 4)), half),
           VAdd(mid, BulgeOffset(direction, curve_factor, 1, 1)),
           VAdd(VSub(end, VScale(direction, 1, 4)), half),
           end >>

\* ControlPoints with the curvature applied to paths of 3 or more landmarks as
\* well: every interior landmark pushed sideways by the bulge of the segment
\* that leads to it.
ControlPoints_curvature_reapplied(s) ==
    IF Len(s.points) = 2
    THEN BulgeControlPoints(ToFloat(s.points[1]), ToFloat(s.points[2]), s.curve_factor)
    ELSE [i \in 1 .. Len(s.points) |->
            IF i = 1 \/ i = Len(s.points) THEN ToFloat(s.points[i])
            ELSE VAdd(ToFloat(s.points[i]),
                      BulgeOffset(VSub(ToFloat(s.points[i]), ToFloat(s.points[i - 1])),
                                  s.curve_factor, 1, 1))]

\* control_points of create_curve / create_curve_high_res (2 or more landmarks).
ControlPoints(s) ==
    IF Len(s.points) = 2
    THEN BulgeControlPoints(ToFloat(s.points[1]), ToFloat(s.points[2]), s.curve_factor)
    ELSE points_arr(s)

RECURSIVE ChordLength(_, _)
\* Cumulative chord length of the control polygon up to control point i.
ChordLength(c, i) ==
    IF i <= 1 THEN 0 ELSE ChordLength(c, i - 1) + Norm(VSub(c[i], c[i - 1]))

\* splprep raises when the degree is not in 1 .. 5, when there are not more
\* control points than the degree, and (ValueError, "Invalid inputs") when its
\* parameter values are not strictly increasing: two consecutive control points
\* coincide.
SplprepRaises(c, k) ==
    \/ k < 1 \/ k > 5
    \/ Len(c) <= k
    \/ \E i \in 1 .. Len(c) - 1 : c[i] = c[i + 1]

\* tck of splprep([x, y, z], s=0, k=k): the control points, the degree and the
\* chord-length parameter of every control point.
splprep(c, k) == [c |-> c, k |-> k, u |-> [i \in 1 .. Len(c) |-> ChordLength(c, i)]]

\* splev at the j-th of n uniformly spaced parameters of [0, 1] (j = 1 .. n).
splev(j, n, tck) ==
    LET m     == Len(tck.c)
        total == tck.u[m]
        at    == IF n = 1 THEN 0 ELSE Div(total * (j - 1), n - 1)
        seg   == CHOOSE i \in 1 .. m - 1 :
                     /\ at <= tck.u[i + 1]
                     /\ \A h \in 1 .. i - 1 : at > tck.u[h + 1]
    IN  VAdd(tck.c[seg],
             VScale(VSub(tck.c[seg + 1], tck.c[seg]),
                    at - tck.u[seg], tck.u[seg + 1] - tck.u[seg]))

\* np.array(splev(np.linspace(0, 1, n), tck)).T
SplineCurve(control_points, k, n) ==
    LET tck == splprep(control_points, k)
    IN  [j \in 1 .. n |-> splev(j, n, tck)]

\* create_curve with its guard off by one (len(self.points) < 1).
create_curve_guard_below_one(s) ==
    IF Len(s.points) < 1 THEN <<>>
    ELSE LET control_points == ControlPoints(s)
             k              == Min(3, Len(control_points) - 1)
         IN  IF SplprepRaises(control_points, k) THEN points_arr(s)
             ELSE SplineCurve(control_points, k, PreviewSamples)

\* create_curve: the preview curve; the empty array below 2 landmarks, the raw
\* landmarks when the spline fit raises.
create_curve(s) ==
    IF Len(s.points) < 2 THEN <<>>
    ELSE LET control_points == ControlPoints(s)
             k              == Min(3, Len(control_points) - 1)
         IN  IF SplprepRaises(control_points, k) THEN points_arr(s)
             ELSE SplineCurve(control_points, k, PreviewSamples)

\* create_curve_high_res with its guard off by one (len(self.points) < 1).
create_curve_high_res_guard_below_one(s) ==
    IF Len(s.points) < 1 THEN <<>>
    ELSE LET control_points == ControlPoints(s)
             k              == Min(3, Len(control_points) - 1)
         IN  IF SplprepRaises(control_points, k) THEN points_arr(s)
             ELSE SplineCurve(control_points, k, s.mpr_points)

\* create_curve_high_res sampling np.linspace(0, 1, n, endpoint=False).
create_curve_high_res_endpoint_excluded(s) ==
    IF Len(s.points) < 2 THEN <<>>
    ELSE LET control_points == ControlPoints(s)
             k              == Min(3, Len(control_points) - 1)
         IN  IF SplprepRaises(control_points, k) THEN points_arr(s)
             ELSE LET tck == splprep(control_points, k)
                  IN  [j \in 1 .. s.mpr_points |-> splev(j, s.mpr_points + 1, tck)]

\* create_curve_high_res whose except branch returns control_points.
create_curve_high_res_fallback_control_points(s) ==
    IF Len(s.points) < 2 THEN <<>>
    ELSE LET control_points == ControlPoints(s)
             k              == Min(3, Len(control_points) - 1)
         IN  IF SplprepRaises(control_points, k) THEN control_points
             ELSE SplineCurve(control_points, k, s.mpr_points)

\* create_curve_high_res whose except branch returns the distinct landmarks
\* only (np.unique(points_arr, axis=0) for a list of equal landmarks).
create_curve_high_res_fallback_deduplicated(s) ==
    IF Len(s.points) < 2 THEN <<>>
    ELSE LET control_points == ControlPoints(s)
             k              == Min(3, Len(control_points) - 1)
         IN  IF SplprepRaises(control_points, k)
             THEN IF \A i \in 1 .. Len(s.points) : s.points[i] = s.points[1]
                  THEN <<ToFloat(s.points[1])>>
                  ELSE points_arr(s)
             ELSE SplineCurve(control_points, k, s.mpr_points)

\* create_curve_high_res that returns the preview curve on display, when there
\* is one, instead of fitting the spline again.
create_curve_high_res_from_preview(s) ==
    IF Len(s.points) < 2 THEN <<>>
    ELSE IF Len(s.line) > 0 THEN s.line
    ELSE LET control_points == ControlPoints(s)
             k              == Min(3, Len(control_points) - 1)
         IN  IF SplprepRaises(control_points, k) THEN points_arr(s)
             ELSE SplineCurve(control_points, k, s.mpr_points)

\* create_curve_high_res: the curve handed to extract_mpr.
create_curve_high_res(s) ==
    IF Len(s.points) < 2 THEN <<>>
    ELSE LET control_points == ControlPoints(s)
             k              == Min(3, Len(control_points) - 1)
         IN  IF SplprepRaises(control_points, k) THEN points_arr(s)
             ELSE SplineCurve(control_points, k, s.mpr_points)

(* ------------------------------ FrameField ---------------------------- *)

\* Tangent with the forward difference at every sample but the last.
Tangent_forward_difference(curve, i) ==
    IF i = Len(curve) THEN VSub(curve[i], curve[i - 1]) ELSE VSub(curve[i + 1], curve[i])

\* The unnormalised tangent at sample i of a curve of 2 or more samples.
Tangent(curve, i) ==
    IF i = 1 THEN VSub(curve[2], curve[1])
    ELSE IF i = Len(curve) THEN VSub(curve[i], curve[i - 1])
    ELSE VScale(VSub(curve[i + 1], curve[i - 1]), 1, 2)

\* NormalOf with the reference axis (0, 0, 1) for every tangent.
NormalOf_single_reference(tangent) ==
    Normalized(VScale(Cross(tangent, <<0, 0, SCALE>>), 1, SCALE))

\* The normalised cross-sectional normal for a normalised tangent.
NormalOf(tangent) ==
    IF 10 * Abs(tangent[3]) < 9 * SCALE
    THEN Normalized(VScale(Cross(tangent, <<0, 0, SCALE>>), 1, SCALE))
    ELSE Normalized(VScale(Cross(tangent, <<SCALE, 0, 0>>), 1, SCALE))

\* compute_normals raises IndexError (curve[i+1] at i = 0) for a one-sample curve.
ComputeNormalsRaises(curve) == Len(curve) = 1

\* compute_normals: one normal per curve sample.
compute_normals(curve) ==
    [i \in 1 .. Len(curve) |-> NormalOf(Normalized(Tangent(curve, i)))]

(* --------------------------- VolumeResampler -------------------------- *)

\* WidthRange as np.linspace(0, height, height)[j - 1]: offsets on one side of
\* the path only.
WidthRange_from_zero(height, j) ==
    IF height = 1 THEN 0 ELSE Div((j - 1) * height * SCALE, height - 1)

\* np.linspace(-height/2, height/2, height)[j - 1]
WidthRange(height, j) ==
    IF height = 1 THEN Div(-SCALE, 2)
    ELSE Div((2 * (j - 1) - (height - 1)) * height * SCALE, 2 * (height - 1))

\* The bounds check with <= in place of <: a coordinate of exactly extent - 1
\* passes.
InBounds_inclusive(sample_point) ==
    \A k \in 1 .. 3 : 0 <= sample_point[k] /\ sample_point[k] <= (Shape[k] - 1) * SCALE

\* all(0 <= sample_point[k] < self.data.shape[k]-1 for k in range(3))
InBounds(sample_point) ==
    \A k \in 1 .. 3 : 0 <= sample_point[k] /\ sample_point[k] < (Shape[k] - 1) * SCALE

Lerp(a, b, f) == a + Div((b - a) * f, SCALE)

\* map_coordinates(data, coords, order=1, mode='constant', cval=0.0): trilinear
\* interpolation of the 8 neighbours, a neighbour outside the volume counting
\* as cval.
map_coordinates(data, p) ==
    LET x0 == p[1] \div SCALE
        y0 == p[2] \div SCALE
        z0 == p[3] \div SCALE
        fx == p[1] % SCALE
        fy == p[2] % SCALE
        fz == p[3] % SCALE
        At(x, y, z)  == IF <<x, y, z>> \in DOMAIN data THEN data[<<x, y, z>>] ELSE 0
        AlongZ(x, y) == Lerp(At(x, y, z0), At(x, y, z0 + 1), fz)
        AlongY(x)    == Lerp(AlongZ(x, y0), AlongZ(x, y0 + 1), fy)
    IN  Lerp(AlongY(x0), AlongY(x0 + 1), fx)

\* sample_point = center + normal * offset
SamplePoint(center, normal, offset) == VAdd(center, VScale(normal, offset, SCALE))

\* extract_mpr: mpr_image[j, i], row j the cross-section offset, column i the
\* position along the curve; cells failing the bounds check keep np.zeros' 0.
extract_mpr(s, curve_path) ==
    LET normals == compute_normals(curve_path)
    IN  [j \in 1 .. s.mpr_height |->
            [i \in 1 .. Len(curve_path) |->
                LET sample_point ==
                        SamplePoint(curve_path[i], normals[i], WidthRange(s.mpr_height, j))
                IN  IF InBounds(sample_point) THEN map_coordinates(s.data, sample_point)
                    ELSE 0]]

(* ----------------------------- ImageEnhancer -------------------------- *)

\* The cells of an image as a sequence, row after row.
Flatten(img) ==
    LET w == IF Len(img) = 0 THEN 0 ELSE Len(img[1])
    IN  [n \in 1 .. Len(img) * w |-> img[((n - 1) \div w) + 1][((n - 1) % w) + 1]]

\* mpr_image.max(); raises ValueError on a zero-size array.
ImageMax(img) == LET flat == Flatten(img) IN SetMax({flat[n] : n \in DOMAIN flat})

\* mpr_image[mpr_image > 0], sorted ascending.
SortedPositive(img) ==
    SortSeq(SelectSeq(Flatten(img), LAMBDA v : v > 0), LAMBDA a, b : a < b)

\* np.percentile(values, q) with numpy's default linear interpolation.
Percentile(sorted, q) ==
    LET pos == q * (Len(sorted) - 1)
        lo  == (pos \div 100) + 1
        hi  == Min(lo + 1, Len(sorted))
    IN  sorted[lo] + Div((sorted[hi] - sorted[lo]) * (pos % 100), 100)

\* Stretch mapping the whole image to 1 when the percentiles coincide.
Stretch_one_on_equal_percentiles(v, p1, p99) ==
    IF p99 = p1 THEN (IF v >= p1 THEN SCALE ELSE 0)
    ELSE Max(0, Min(SCALE, Div((v - p1) * SCALE, p99 - p1)))

\* np.clip((v - p1) / (p99 - p1 + 1e-10), 0, 1)
Stretch(v, p1, p99) ==
    IF p99 = p1 THEN (IF v > p1 THEN SCALE ELSE 0)
    ELSE Max(0, Min(SCALE, Div((v - p1) * SCALE, p99 - p1)))

\* np.power(v, num/den) for v in [0, 1]
Power(v, num, den) ==
    CHOOSE r \in 0 .. SCALE :
        /\ IPow(r, den) <= IPow(v, num) * IPow(SCALE, den - num)
        /\ r < SCALE => IPow(r + 1, den) > IPow(v, num) * IPow(SCALE, den - num)

\* np.power(., 0.75) and np.power(., 0.8), tabulated over [0, 1].
GammaTable == [k \in Kinds |-> [v \in 0 .. SCALE |-> Power(v, Gamma(k)[1], Gamma(k)[2])]]

\* The value standing for NaN: below every intensity.
NaN == 0 - 1

\* Enhance without the max() > 0 guard: the percentiles of an empty selection
\* are NaN, and so is every cell computed from them.
Enhance_unguarded(s, mpr_image) ==
    LET sorted == SortedPositive(mpr_image)
    IN  IF Len(sorted) = 0
        THEN [j \in DOMAIN mpr_image |-> [i \in DOMAIN mpr_image[j] |-> NaN]]
        ELSE LET p1  == Percentile(sorted, 1)
                 p99 == Percentile(sorted, 99)
             IN  [j \in DOMAIN mpr_image |->
                    [i \in DOMAIN mpr_image[j] |->
                        GammaTable[s.kind][Stretch(mpr_image[j][i], p1, p99)]]]

\* Enhance without np.clip: min-max scaling by the percentiles only, the gamma
\* applied where it is defined.
Enhance_without_clip(s, mpr_image) ==
    IF ImageMax(mpr_image) > 0
    THEN LET sorted == SortedPositive(mpr_image)
             p1     == Percentile(sorted, 1)
             p99    == Percentile(sorted, 99)
             Scaled(v) == IF p99 = p1 THEN (IF v > p1 THEN 2 * SCALE ELSE IF v < p1 THEN NaN ELSE 0)
                          ELSE Div((v - p1) * SCALE, p99 - p1)
         IN  [j \in DOMAIN mpr_image |->
                [i \in DOMAIN mpr_image[j] |->
                    IF Scaled(mpr_image[j][i]) \in 0 .. SCALE
                    THEN GammaTable[s.kind][Scaled(mpr_image[j][i])]
                    ELSE Scaled(mpr_image[j][i])]]
    ELSE mpr_image

\* The contrast stretch and gamma of generate_mpr.
Enhance(s, mpr_image) ==
    IF ImageMax(mpr_image) > 0
    THEN LET sorted == SortedPositive(mpr_image)
             p1     == Percentile(sorted, 1)
             p99    == Percentile(sorted, 99)
         IN  [j \in DOMAIN mpr_image |->
                [i \in DOMAIN mpr_image[j] |->
                    GammaTable[s.kind][Stretch(mpr_image[j][i], p1, p99)]]]
    ELSE mpr_image

RECURSIVE PathLength(_, _)
\* np.sum(np.linalg.norm(np.diff(curve, axis=0), axis=1)) up to sample i.
PathLength(curve, i) ==
    IF i <= 1 THEN 0 ELSE PathLength(curve, i - 1) + Norm(VSub(curve[i], curve[i - 1]))

(* -------------------------- the GUI callbacks ------------------------- *)

\* A callback that ran to its end, leaving the viewer as `s`.
Returned(s) == [self |-> s, raised |-> FALSE]

\* A callback left by an exception, the viewer as it was at the raise.
Raised(s) == [self |-> s, raised |-> TRUE]

\* update_display: the landmark markers, the preview line of the three views
\* (kept once, in 3D) and the banner.  Indexing an empty curve (curve[:, 0])
\* raises IndexError.
update_display(s) ==
    IF Len(s.points) = 0
    THEN Returned([s EXCEPT !.line = <<>>, !.points_plot = <<>>,
                            !.info_text = get_info_text(s)])
    ELSE IF Len(s.points) >= 2
    THEN LET curve == create_curve(s)
         IN  IF Len(curve) = 0
             THEN Raised([s EXCEPT !.points_plot = s.points])
             ELSE Returned([s EXCEPT !.line = curve, !.points_plot = s.points,
                                     !.info_text = get_info_text(s)])
    ELSE Returned([s EXCEPT !.line = <<>>, !.points_plot = s.points,
                            !.info_text = get_info_text(s)])

\* ClickedPoint with the two pixel coordinates exchanged in the spine viewer.
ClickedPoint_spine_axes_exchanged(s, event) ==
    LET x == IF s.kind = "spine" THEN event.ydata ELSE event.xdata
        y == IF s.kind = "spine" THEN event.xdata ELSE event.ydata
    IN  IF event.inaxes = "axial" THEN <<x, y, s.current_slice_ax>>
        ELSE IF event.inaxes = "coronal" THEN <<x, s.current_slice_cor, y>>
        ELSE <<s.current_slice_sag, x, y>>

\* The 3D point of a click at pixel (x, y) of a slice view.
ClickedPoint(s, event) ==
    IF event.inaxes = "axial" THEN <<event.xdata, event.ydata, s.current_slice_ax>>
    ELSE IF event.inaxes = "coronal" THEN <<event.xdata, s.current_slice_cor, event.ydata>>
    ELSE <<s.current_slice_sag, event.xdata, event.ydata>>

\* add_landmark that skips a point already in the list.
add_landmark_dedup(s, point) ==
    IF \E i \in 1 .. Len(s.points) : s.points[i] = point THEN Returned(s)
    ELSE update_display([s EXCEPT !.points = Append(s.points, point)])

\* self.points.append(point), then update_display.
add_landmark(s, point) == update_display([s EXCEPT !.points = Append(s.points, point)])

\* A left click in one of the three slice views.
IsAddPoint(event) == event.inaxes \in {"axial", "coronal", "sagittal"} /\ event.button = 1

\* on_click: a left click in one of the three slice views appends a landmark.
on_click(s, event) ==
    IF IsAddPoint(event) THEN add_landmark(s, ClickedPoint(s, event)) ELSE Returned(s)

\* ax_mpr after a reconstruction: the enhanced image and the info box.
ImageDisplay(s, curve, mpr_enhanced) ==
    [kind      |-> "image",
     image     |-> mpr_enhanced,
     curvature |-> s.curve_factor,
     length    |-> PathLength(curve, Len(curve))]

\* generate_mpr with its guard off by one (len(self.points) < 1).
generate_mpr_guard_below_one(s) ==
    IF Len(s.points) < 1
    THEN Returned([s EXCEPT !.ax_mpr = WarningDisplay])
    ELSE LET curve == create_curve_high_res(s)
         IN  IF ComputeNormalsRaises(curve) \/ Len(curve) = 0
             THEN Raised(s)
             ELSE Returned([s EXCEPT !.ax_mpr =
                               ImageDisplay(s, curve, Enhance(s, extract_mpr(s, curve)))])

\* generate_mpr that keeps the image already displayed instead of recomputing.
generate_mpr_cached(s) ==
    IF Len(s.points) < 2
    THEN Returned([s EXCEPT !.ax_mpr = WarningDisplay])
    ELSE IF s.ax_mpr.kind = "image" THEN Returned(s)
    ELSE LET curve == create_curve_high_res(s)
         IN  Returned([s EXCEPT !.ax_mpr =
                          ImageDisplay(s, curve, Enhance(s, extract_mpr(s, curve)))])

\* generate_mpr that stretches the working volume in place while enhancing.
generate_mpr_in_place(s) ==
    IF Len(s.points) < 2
    THEN Returned([s EXCEPT !.ax_mpr = WarningDisplay])
    ELSE LET curve == create_curve_high_res(s)
         IN  Returned([s EXCEPT !.ax_mpr =
                          ImageDisplay(s, curve, Enhance(s, extract_mpr(s, curve))),
                                !.data = [c \in DOMAIN s.data |-> Min(SCALE, 2 * s.data[c])]])

\* generate_mpr: refuse below 2 landmarks, else curve, resample, enhance, show.
generate_mpr(s) ==
    IF Len(s.points) < 2
    THEN Returned([s EXCEPT !.ax_mpr = WarningDisplay])
    ELSE LET curve == create_curve_high_res(s)
         IN  IF ComputeNormalsRaises(curve) \/ Len(curve) = 0
             THEN Raised(s)
             ELSE Returned([s EXCEPT !.ax_mpr =
                               ImageDisplay(s, curve, Enhance(s, extract_mpr(s, curve)))])

\* clear_points without ax_mpr.clear().
clear_points_keeps_display(s) == update_display([s EXCEPT !.points = <<>>])

\* clear_points
clear_points(s) ==
    update_display([s EXCEPT !.points = <<>>, !.ax_mpr = ClearedDisplay])

\* undo_last popping the first landmark (pop(0)) instead of the last.
undo_last_pops_first(s) ==
    IF Len(s.points) > 0
    THEN update_display([s EXCEPT !.points = SubSeq(s.points, 2, Len(s.points))])
    ELSE Returned(s)

\* undo_last: list.pop() on an empty list would raise IndexError.
undo_last(s) ==
    IF Len(s.points) > 0
    THEN update_display([s EXCEPT !.points = SubSeq(s.points, 1, Len(s.points) - 1)])
    ELSE Returned(s)

\* update_curve_factor storing the value only when a preview is redrawn.
update_curve_factor_only_with_preview(s, val) ==
    IF Len(s.points) >= 2
    THEN update_display([s EXCEPT !.curve_factor = val])
    ELSE Returned(s)

\* update_curve_factor that also reconstructs the image when a path exists.
update_curve_factor_runs_reconstruction(s, val) ==
    IF Len(s.points) >= 2
    THEN generate_mpr(update_display([s EXCEPT !.curve_factor = val]).self)
    ELSE Returned([s EXCEPT !.curve_factor = val])

\* update_curve_factor
update_curve_factor(s, val) ==
    IF Len(s.points) >= 2
    THEN update_display([s EXCEPT !.curve_factor = val])
    ELSE Returned([s EXCEPT !.curve_factor = val])

(* ---------------------------- the Slider widget ----------------------- *)

\* Slider(ax_curve, 'Curvature', 0.0, 1.0, valinit=..., valstep=0.05), in
\* hundredths.
valmin == 0

valmax == 100

valstep == 5

\* The slider without the clip to [valmin, valmax].
SliderValue_unclipped(raw) ==
    valmin + ((2 * (raw - valmin) + valstep) \div (2 * valstep)) * valstep

\* Slider._value_in_bounds: snap the dragged position to the step grid, then
\* clip it to [valmin, valmax].
SliderValue(raw) ==
    LET stepped == valmin + ((2 * (raw - valmin) + valstep) \div (2 * valstep)) * valstep
    IN  IF stepped <= valmin THEN valmin
        ELSE IF stepped >= valmax THEN valmax
        ELSE stepped

(* ------------------------------- inputs ------------------------------- *)

\* A button_press_event: the axes under the pointer ("mpr" stands for any axes
\* that is not a slice view), the mouse button, and the pixel
\* (int(event.xdata), int(event.ydata)).
Click(inaxes, button, x, y) == [inaxes |-> inaxes, button |-> button, xdata |-> x, ydata |-> y]

\* The clicks the user makes: a left click in each slice view (two of them on
\* the same voxel), a right click, and a left click outside the slice views.
ClickEvents ==
    { Click("axial", 1, 0, 1), Click("coronal", 1, 1, 1), Click("sagittal", 1, 1, 1),
      Click("axial", 3, 0, 1), Click("mpr", 1, 1, 1) }

\* Positions the slider knob is dragged to, in hundredths (some outside the track).
SliderDrags == {-8, 130}

(* --------------------------- the state machine ------------------------ *)

VARIABLES
    self,   \* the InteractiveCurvedMPR object
    last    \* the callback that ran last, and whether it raised

vars == <<self, last>>

Init ==
    /\ \E kind \in Kinds, raw \in RawVolumes : self = NewViewer(kind, raw)
    /\ last = [op |-> "__init__", raised |-> FALSE]

\* One callback ran: the object it left, and how it ended.
Step(op, outcome) ==
    /\ self' = outcome.self
    /\ last' = [op |-> op, raised |-> outcome.raised]

OnClick ==
    \E event \in ClickEvents :
        /\ Len(self.points) < MaxPoints
        /\ Step("on_click", on_click(self, event))

GenerateMpr == Step("generate_mpr", generate_mpr(self))

ClearPoints == Step("clear_points", clear_points(self))

UndoLast == Step("undo_last", undo_last(self))

UpdateCurveFactor ==
    \E raw \in SliderDrags :
        Step("update_curve_factor", update_curve_factor(self, SliderValue(raw)))

Next == OnClick \/ GenerateMpr \/ ClearPoints \/ UndoLast \/ UpdateCurveFactor

Spec == Init /\ [][Next]_vars

(* ------------------------- the session's states ----------------------- *)

\* The session state the slice views show: no markers (Empty), markers without
\* a preview curve (Sketching), markers with a preview curve (Ready).
SessionState(s) ==
    IF Len(s.points_plot) = 0 THEN "Empty"
    ELSE IF Len(s.line) = 0 THEN "Sketching"
    ELSE "Ready"

\* The session state of a landmark count.
StateOfCount(n) == IF n = 0 THEN "Empty" ELSE IF n = 1 THEN "Sketching" ELSE "Ready"

RECURSIVE AddAll(_, _, _)
\* The viewer after the landmarks pts[i], pts[i+1], ... were added to s.
AddAll(s, pts, i) ==
    IF i > Len(pts) THEN s ELSE AddAll(add_landmark(s, pts[i]).self, pts, i + 1)

\* A newly constructed viewer of the same program over the same scan, driven
\* the shortest way to the landmark list pts and the curvature cf: the
\* landmarks added in order, then the slider moved once.
FreshSession(kind, raw, pts, cf) ==
    LET added == AddAll(NewViewer(kind, raw), pts, 1)
    IN  IF cf = added.curve_factor THEN added ELSE update_curve_factor(added, cf).self

(* ------------------- the path builder on its own ---------------------- *)

\* The voxels a click can name: those of the three slices on display.
Clickable ==
    {c \in Cells : \/ c[1] = Shape[1] \div 2
                   \/ c[2] = Shape[2] \div 2
                   \/ c[3] = Shape[3] \div 2}

\* The voxels the three-landmark paths are drawn from.
TriplePoints == {<<0, 1, 1>>, <<1, 1, 1>>, <<1, 2, 2>>}

\* The landmark lists the builder is run on: every pair of clickable voxels
\* (equal ones included) and every triple over TriplePoints.
BuilderLandmarkLists ==
    {<<a, b>> : a \in Clickable, b \in Clickable}
        \cup {<<a, b, c>> : a \in TriplePoints, b \in TriplePoints, c \in TriplePoints}

\* The curvatures a session is brought to: the initial one and three slider
\* positions (both ends of the track and the middle).
Curvatures(kind) == {InitialCurveFactor(kind)} \cup {SliderValue(raw) : raw \in {-8, 52, 130}}

\* A viewer brought by clicks and one slider move to a landmark list and a
\* curvature, no callback running.
BuilderInit ==
    /\ \E kind \in Kinds, pts \in BuilderLandmarkLists :
          \E cf \in Curvatures(kind) : self = FreshSession(kind, RampVolume, pts, cf)
    /\ last = [op |-> "__init__", raised |-> FALSE]

\* A call of one of the two builders: its control points and what it returns.
BuilderCall(op, curve) ==
    /\ last.op = "__init__"
    /\ self' = self
    /\ last' = [op |-> op, raised |-> FALSE,
                control_points |-> ControlPoints(self), curve |-> curve]

CallCreateCurve == BuilderCall("create_curve", create_curve(self))

CallCreateCurveHighRes == BuilderCall("create_curve_high_res", create_curve_high_res(self))

BuilderNext == CallCreateCurve \/ CallCreateCurveHighRes

BuilderSpec == BuilderInit /\ [][BuilderNext]_vars

(* ---------------- generate_mpr, statement by statement ---------------- *)

\* The voxels the reconstructed paths are drawn from: both ends of the volume
\* along x and along z.
PipelinePoints == {<<0, 1, 1>>, <<2, 1, 1>>, <<1, 1, 0>>, <<1, 1, 2>>}

\* The landmark lists a reconstruction is requested on: none, one, every pair
\* over PipelinePoints and every triple over two voxels.
PipelineLandmarkLists ==
    {<<>>, << <<0, 1, 1>> >>}
        \cup {<<a, b>> : a \in PipelinePoints, b \in PipelinePoints}
        \cup {<<a, b, c>> : a \in {<<0, 1, 1>>, <<1, 1, 2>>},
                            b \in {<<0, 1, 1>>, <<1, 1, 2>>},
                            c \in {<<0, 1, 1>>, <<1, 1, 2>>}}

\* np.zeros((height, num_points)); also the per-cell visit counts at loop entry.
Zeros(height, num_points) == [j \in 1 .. height |-> [i \in 1 .. num_points |-> 0]]

\* The frame of generate_mpr at its first statement.
EnterGenerateMpr ==
    [op |-> "generate_mpr", raised |-> FALSE, pc |-> "guard",
     curve |-> <<>>, normals |-> <<>>, mpr_image |-> <<>>, visits |-> <<>>,
     i |-> 0, j |-> 0, mpr_enhanced |-> <<>>]

\* The Generate button pressed in a viewer brought to a landmark list and a
\* curvature.
PipelineInit ==
    /\ \E kind \in Kinds, raw \in RawVolumes, pts \in PipelineLandmarkLists :
          \E cf \in Curvatures(kind) : self = FreshSession(kind, raw, pts, cf)
    /\ last = EnterGenerateMpr

\* if len(self.points) < 2: warn and return.
PipelineGuard ==
    /\ last.pc = "guard"
    /\ IF Len(self.points) < 2
       THEN /\ self' = [self EXCEPT !.ax_mpr = WarningDisplay]
            /\ last' = [last EXCEPT !.pc = "returned"]
       ELSE /\ self' = self
            /\ last' = [last EXCEPT !.pc = "create_curve_high_res"]

\* curve = self.create_curve_high_res()
PipelineCurve ==
    /\ last.pc = "create_curve_high_res"
    /\ self' = self
    /\ last' = [last EXCEPT !.curve = create_curve_high_res(self), !.pc = "compute_normals"]

\* extract_mpr up to its loop: normals = self.compute_normals(curve_path),
\* mpr_image = np.zeros((height, num_points)).
PipelineNormals ==
    /\ last.pc = "compute_normals"
    /\ self' = self
    /\ IF ComputeNormalsRaises(last.curve) \/ Len(last.curve) = 0
       THEN last' = [last EXCEPT !.raised = TRUE, !.pc = "raised"]
       ELSE last' = [last EXCEPT !.normals   = compute_normals(last.curve),
                                 !.mpr_image = Zeros(self.mpr_height, Len(last.curve)),
                                 !.visits    = Zeros(self.mpr_height, Len(last.curve)),
                                 !.i = 1, !.j = 1, !.pc = "resample"]

\* The inner loop stuck on one column: i never advances.
NextCell_column_not_advanced(i, j, height) ==
    IF j < height THEN <<i, j + 1>> ELSE <<i, 1>>

\* for i in range(num_points): for j, offset in enumerate(width_range): the
\* cell visited after cell (i, j).
NextCell(i, j, height) ==
    IF j < height THEN <<i, j + 1>> ELSE <<i + 1, 1>>

\* One pass through the body of the inner loop, cell (j, i).
PipelineCell ==
    /\ last.pc = "resample"
    /\ self' = self
    /\ LET i == last.i
           j == last.j
           sample_point ==
               SamplePoint(last.curve[i], last.normals[i], WidthRange(self.mpr_height, j))
           next == NextCell(i, j, self.mpr_height)
       IN  last' = [last EXCEPT
                      !.mpr_image[j][i] =
                          IF InBounds(sample_point)
                          THEN map_coordinates(self.data, sample_point) ELSE @,
                      !.visits[j][i] = Min(2, @ + 1),
                      !.i = next[1], !.j = next[2],
                      !.pc = IF next[1] > Len(last.curve) THEN "enhance" ELSE "resample"]

\* The contrast stretch and gamma, lines `if mpr_image.max() > 0:` to `else:`.
PipelineEnhance ==
    /\ last.pc = "enhance"
    /\ self' = self
    /\ last' = [last EXCEPT !.mpr_enhanced = Enhance(self, last.mpr_image), !.pc = "show"]

\* imshow, title and info box, then the callback returns.
PipelineShow ==
    /\ last.pc = "show"
    /\ self' = [self EXCEPT !.ax_mpr = ImageDisplay(self, last.curve, last.mpr_enhanced)]
    /\ last' = [last EXCEPT !.pc = "returned"]

PipelineNext ==
    \/ PipelineGuard \/ PipelineCurve \/ PipelineNormals
    \/ PipelineCell \/ PipelineEnhance \/ PipelineShow

\* The callback has a statement left to run: it has neither returned nor
\* raised. Every statement is guarded by its label alone, so this is
\* ENABLED <<PipelineNext>>_vars.
PipelineRunning == last.pc \notin {"returned", "raised"}

\* The callback runs on the GUI thread, one statement after the other: a
\* statement that can run does run. Weak fairness of PipelineNext, with its
\* enabling condition written as PipelineRunning.
PipelineFairness == []<>(~PipelineRunning) \/ []<><<PipelineNext>>_vars

PipelineSpec == PipelineInit /\ [][PipelineNext]_vars /\ PipelineFairness

\* Some cell of the displayed reconstruction is not background.
ShowsTissue(s) ==
    /\ s.ax_mpr.kind = "image"
    /\ \E j \in DOMAIN s.ax_mpr.image : \E i \in DOMAIN s.ax_mpr.image[j] :
          s.ax_mpr.image[j][i] > 0

(* ------------- the two viewers driven by the same operations ---------- *)

\* The aorta viewer (self) and the spine viewer (last.twin) constructed over
\* the same scan.
TwinInit ==
    \E raw \in RawVolumes :
        /\ self = NewViewer("aorta", raw)
        /\ last = [op |-> "__init__", raised |-> FALSE,
                   twin |-> NewViewer("spine", raw), twin_raised |-> FALSE]

\* The same callback ran in both viewers: what it left in each, and how it
\* ended in each.
TwinStep(op, outcome, twin_outcome) ==
    /\ self' = outcome.self
    /\ last' = [op |-> op, raised |-> outcome.raised,
                twin |-> twin_outcome.self, twin_raised |-> twin_outcome.raised]

TwinOnClick ==
    \E event \in ClickEvents :
        /\ Len(self.points) < MaxPoints
        /\ TwinStep("on_click", on_click(self, event), on_click(last.twin, event))

TwinGenerateMpr == TwinStep("generate_mpr", generate_mpr(self), generate_mpr(last.twin))

TwinClearPoints == TwinStep("clear_points", clear_points(self), clear_points(last.twin))

TwinUndoLast == TwinStep("undo_last", undo_last(self), undo_last(last.twin))

TwinUpdateCurveFactor ==
    \E raw \in SliderDrags :
        TwinStep("update_curve_factor", update_curve_factor(self, SliderValue(raw)),
                 update_curve_factor(last.twin, SliderValue(raw)))

TwinNext ==
    \/ TwinOnClick \/ TwinGenerateMpr \/ TwinClearPoints
    \/ TwinUndoLast \/ TwinUpdateCurveFactor

TwinSpec == TwinInit /\ [][TwinNext]_vars

(* ------------- muscleFocusNavigation: focus on a vertebra ------------- *)

\* current_focus = None, kept as a number outside 1 .. len(vertebrae).
None == 0

\* opacity_levels of apply_transparency_level, in hundredths.
opacity_levels == [level \in 1 .. 4 |-> <<50, 25, 10, 0>>[level]]

\* The globals of the script when the window opens, with n vertebrae loaded
\* and numbered 1 .. n: nothing focused, level 2, every actor opaque and
\* visible, the camera on the whole scene (0; k once it is moved to vertebra k).
FocusViewer(n) ==
    [vertebrae          |-> n,
     current_focus      |-> None,
     transparency_level |-> 2,
     opacity            |-> [k \in 1 .. n |-> 100],
     visible            |-> [k \in 1 .. n |-> TRUE],
     other_opacity      |-> 100,
     other_visible      |-> TRUE,
     camera             |-> 0]

\* apply_transparency_level: nothing without a focus; else the focused
\* vertebra opaque and visible, every other actor at the level's opacity and
\* hidden at level 4.
apply_transparency_level(g) ==
    IF g.current_focus = None THEN g
    ELSE LET other_opacity == opacity_levels[g.transparency_level]
         IN  [g EXCEPT
                !.opacity = [k \in 1 .. g.vertebrae |->
                                IF k = g.current_focus THEN 100 ELSE other_opacity],
                !.visible = [k \in 1 .. g.vertebrae |->
                                k = g.current_focus \/ g.transparency_level # 4],
                !.other_opacity = other_opacity,
                !.other_visible = (g.transparency_level # 4)]

\* focus_on_vertebra_number: a number no vertebra carries changes nothing.
focus_on_vertebra_number(g, vert_num) ==
    IF vert_num \notin 1 .. g.vertebrae THEN g
    ELSE [apply_transparency_level([g EXCEPT !.current_focus = vert_num])
            EXCEPT !.camera = vert_num]

\* increase_transparency
increase_transparency(g) ==
    IF g.current_focus = None THEN g
    ELSE apply_transparency_level(
             [g EXCEPT !.transparency_level = Min(4, g.transparency_level + 1)])

\* decrease_transparency
decrease_transparency(g) ==
    IF g.current_focus = None THEN g
    ELSE apply_transparency_level(
             [g EXCEPT !.transparency_level = Max(1, g.transparency_level - 1)])

\* reset_focus
reset_focus(g) ==
    [g EXCEPT !.current_focus = None,
              !.transparency_level = 2,
              !.opacity = [k \in 1 .. g.vertebrae |-> 100],
              !.visible = [k \in 1 .. g.vertebrae |-> TRUE],
              !.other_opacity = 100,
              !.other_visible = TRUE,
              !.camera = 0]

\* next_vertebra going round to vertebra 1 after the last.
next_vertebra_wraps(g) ==
    IF g.current_focus = None THEN focus_on_vertebra_number(g, 1)
    ELSE IF g.current_focus + 1 <= g.vertebrae
    THEN focus_on_vertebra_number(g, g.current_focus + 1)
    ELSE focus_on_vertebra_number(g, 1)

\* next_vertebra
next_vertebra(g) ==
    IF g.current_focus = None THEN focus_on_vertebra_number(g, 1)
    ELSE IF g.current_focus + 1 <= g.vertebrae
    THEN focus_on_vertebra_number(g, g.current_focus + 1)
    ELSE g

\* prev_vertebra
prev_vertebra(g) ==
    IF g.current_focus = None THEN focus_on_vertebra_number(g, g.vertebrae)
    ELSE IF g.current_focus - 1 >= 1
    THEN focus_on_vertebra_number(g, g.current_focus - 1)
    ELSE g

\* The window opens: `self` holds the script's globals.
FocusInit ==
    /\ \E n \in 0 .. MaxVertebrae : self = FocusViewer(n)
    /\ last = [op |-> "show", raised |-> FALSE,
               focus_before |-> None, level_before |-> 2]

\* A key callback ran: the globals it left, the key, and the focus and the
\* level it started from.
KeyEvent(key, g) ==
    /\ self' = g
    /\ last' = [op |-> key, raised |-> FALSE,
                focus_before |-> self.current_focus,
                level_before |-> self.transparency_level]

\* for i in range(1, min(10, len(vertebrae) + 1)): add_key_event(str(i), ...)
KeyNumber ==
    \E i \in 1 .. Min(10, self.vertebrae + 1) - 1 :
        KeyEvent("number", focus_on_vertebra_number(self, i))

KeyNext == KeyEvent("Next", next_vertebra(self))

KeyPrior == KeyEvent("Prior", prev_vertebra(self))

KeyPlus == \E key \in {"plus", "equal"} : KeyEvent(key, increase_transparency(self))

KeyMinus == KeyEvent("minus", decrease_transparency(self))

KeyR == KeyEvent("r", reset_focus(self))

FocusNext == KeyNumber \/ KeyNext \/ KeyPrior \/ KeyPlus \/ KeyMinus \/ KeyR

FocusSpec == FocusInit /\ [][FocusNext]_vars

(* -------------------------------- claims ------------------------------ *)

\* C1: whenever generate_mpr is invoked with fewer than 2 landmarks (0 or 1),
\* in any reachable state, it returns without raising and changes nothing but
\* the reconstruction axes, which show the warning and no image: the landmark
\* list and the curvature are as before.
C1_GenerateRefusedBelowTwoPoints ==
    /\ Len(self.points) < 2 =>
          generate_mpr(self) = Returned([self EXCEPT !.ax_mpr = WarningDisplay])
    /\ (last.op = "generate_mpr" /\ Len(self.points) < 2) =>
          (self.ax_mpr = WarningDisplay /\ ~last.raised)

\* C1 witness: a refused request in Sketching, after the curvature was changed.
C1_Witness ==
    /\ last.op = "generate_mpr"
    /\ Len(self.points) = 1
    /\ self.ax_mpr = WarningDisplay
    /\ self.curve_factor # InitialCurveFactor(self.kind)

\* C2: the state the views show is a function of the landmark count alone
\* (Empty iff 0, Sketching iff 1, Ready iff 2 or more), and every add-point (a
\* left click in a slice view) appends exactly one point at the end: the count
\* grows by 1 and the earlier points keep their values and order, also when the
\* point equals an existing landmark; so the state moves Empty -> Sketching ->
\* Ready -> Ready.
C2_AddPointAppendsOne ==
    /\ SessionState(self) = StateOfCount(Len(self.points))
    /\ \A event \in ClickEvents : IsAddPoint(event) =>
          LET after == on_click(self, event)
          IN  /\ ~after.raised
              /\ Len(after.self.points) = Len(self.points) + 1
              /\ \A i \in 1 .. Len(self.points) : after.self.points[i] = self.points[i]
              /\ after.self.points[Len(self.points) + 1] \in Cells
              /\ SessionState(after.self) = StateOfCount(Len(self.points) + 1)

\* C2 witness: a click appended a point equal to an earlier landmark.
C2_Witness ==
    /\ last.op = "on_click"
    /\ Len(self.points) >= 2
    /\ \E i \in 1 .. Len(self.points) - 1 : self.points[i] = self.points[Len(self.points)]
    /\ SessionState(self) = "Ready"

\* C3: undo_last removes exactly the last landmark; add(p) followed by undo
\* gives back the list and the shown state; the session is Empty after an undo
\* exactly when fewer than 1 landmark is left; undo on the empty list changes
\* nothing; undo never raises.
C3_UndoRemovesLast ==
    LET undone == undo_last(self)
    IN  /\ ~undone.raised
        /\ Len(self.points) = 0 => undone = Returned(self)
        /\ Len(self.points) > 0 =>
              /\ Len(undone.self.points) = Len(self.points) - 1
              /\ \A i \in 1 .. Len(self.points) - 1 :
                    undone.self.points[i] = self.points[i]
        /\ (SessionState(undone.self) = "Empty") <=> (Len(undone.self.points) < 1)
        /\ \A event \in ClickEvents : IsAddPoint(event) =>
              LET back == undo_last(on_click(self, event).self)
              IN  /\ ~back.raised
                  /\ back.self.points = self.points
                  /\ SessionState(back.self) = SessionState(self)

\* C3 witness: an undo took a Ready session back to Sketching.
C3_Witness ==
    /\ last.op = "undo_last"
    /\ Len(self.points) = 1
    /\ SessionState(self) = "Sketching"
    /\ self.ax_mpr.kind = "image"

\* C4: from every reachable state clear_points leaves the landmark list empty
\* (state Empty), the reconstruction axes without an image, no preview curve
\* and the curvature as it was; a reconstruction requested right after the
\* clear is refused.
C4_ClearResetsSession ==
    LET cleared == clear_points(self)
    IN  /\ ~cleared.raised
        /\ cleared.self.points = <<>>
        /\ SessionState(cleared.self) = "Empty"
        /\ cleared.self.ax_mpr = ClearedDisplay
        /\ cleared.self.line = <<>>
        /\ cleared.self.curve_factor = self.curve_factor
        /\ generate_mpr(cleared.self).self.ax_mpr = WarningDisplay
        /\ last.op = "clear_points" =>
              (self.points = <<>> /\ self.ax_mpr = ClearedDisplay /\ self.line = <<>>)

\* C4 witness: a clear ran in a session whose curvature had been changed.
C4_Witness ==
    /\ last.op = "clear_points"
    /\ self.points = <<>>
    /\ self.ax_mpr = ClearedDisplay
    /\ self.curve_factor # InitialCurveFactor(self.kind)

\* C5: a curvature change stores the new value and leaves the landmark list
\* and the shown state as they were; no other callback changes the curvature;
\* and a reconstruction requested after the change shows exactly what a newly
\* constructed viewer, given the same landmarks and the new curvature, shows:
\* nothing computed under an earlier curvature or landmark list is reused.
C5_CurvatureChangeRecomputes ==
    /\ \A raw \in SliderDrags :
          LET val     == SliderValue(raw)
              changed == update_curve_factor(self, val)
          IN  /\ ~changed.raised
              /\ changed.self.curve_factor = val
              /\ changed.self.points = self.points
              /\ SessionState(changed.self) = SessionState(self)
              /\ generate_mpr(changed.self).self.ax_mpr =
                    generate_mpr(FreshSession(self.kind, self.original_data,
                                              self.points, val)).self.ax_mpr
    /\ \A event \in ClickEvents :
          on_click(self, event).self.curve_factor = self.curve_factor
    /\ undo_last(self).self.curve_factor = self.curve_factor
    /\ clear_points(self).self.curve_factor = self.curve_factor
    /\ generate_mpr(self).self.curve_factor = self.curve_factor

\* C5 witness: an image reconstructed under a curvature set on the slider.
C5_Witness ==
    /\ last.op = "generate_mpr"
    /\ self.ax_mpr.kind = "image"
    /\ Len(self.points) = 2
    /\ self.curve_factor # InitialCurveFactor(self.kind)
    /\ self.ax_mpr.curvature = self.curve_factor

\* C6: the curvature is within [0, 1] in every reachable state: 0.3 (aorta) or
\* 0.4 (spine) at construction, and every value the slider hands to
\* update_curve_factor is stored within [0, 1].
C6_CurvatureInRange ==
    /\ valmin <= self.curve_factor /\ self.curve_factor <= valmax
    /\ last.op = "__init__" =>
          self.curve_factor = (IF self.kind = "aorta" THEN 30 ELSE 40)
    /\ \A raw \in SliderDrags :
          update_curve_factor(self, SliderValue(raw)).self.curve_factor \in valmin .. valmax

\* C6 witness: a drag beyond the end of the track stored the maximum.
C6_Witness ==
    /\ last.op = "update_curve_factor"
    /\ self.curve_factor = valmax

\* C7: with fewer than 2 landmarks create_curve returns the empty sequence (it
\* is a total, side-effect free function of the session), and the views show
\* no preview curve.
C7_PreviewEmptyBelowTwoPoints ==
    Len(self.points) < 2 => (create_curve(self) = <<>> /\ self.line = <<>>)

\* C7 witness: one landmark is left after an undo removed the second.
C7_Witness ==
    /\ last.op = "undo_last"
    /\ Len(self.points) = 1
    /\ create_curve(self) = <<>>

\* C8 as stated: with fewer than 2 landmarks the path builder (create_curve,
\* create_curve_high_res) returns the raw input points unchanged, so with one
\* landmark the curve is that landmark.
C8_ReturnsRawPointsBelowTwo ==
    Len(self.points) < 2 =>
        (create_curve(self) = points_arr(self) /\ create_curve_high_res(self) = points_arr(self))

\* C8 as amended: with fewer than 2 landmarks the path builder returns an empty
\* curve (no samples) and raises nothing; with one landmark the curve is empty,
\* not that landmark.
C8_ReturnsEmptyBelowTwo ==
    Len(self.points) < 2 =>
        /\ create_curve_high_res(self) = <<>>
        /\ create_curve(self) = <<>>
        /\ Len(self.points) = 1 => create_curve_high_res(self) # points_arr(self)

\* C8 witness: a session holding exactly one landmark.
C8_Witness ==
    /\ last.op = "on_click"
    /\ Len(self.points) = 1
    /\ create_curve_high_res(self) = <<>>

\* C9: a reconstruction depends on the landmark list, the curvature and the
\* scan only: in every reachable state, whatever its history, generate_mpr
\* shows exactly what a newly constructed viewer over the same scan, driven
\* straight to the same landmarks and curvature, shows; and requesting the
\* reconstruction again shows the same.
C9_ReconstructionDeterministic ==
    LET once  == generate_mpr(self)
        again == generate_mpr(once.self)
        fresh == generate_mpr(FreshSession(self.kind, self.original_data,
                                           self.points, self.curve_factor))
    IN  /\ once.raised = fresh.raised
        /\ once.self.ax_mpr = fresh.self.ax_mpr
        /\ again.self.ax_mpr = once.self.ax_mpr
        /\ last.op = "generate_mpr" => self.ax_mpr = fresh.self.ax_mpr

\* C9 witness: an image of an earlier reconstruction, made under another
\* curvature, is on display, and reconstructing now gives a different image.
C9_Witness ==
    /\ ShowsTissue(self)
    /\ Len(self.points) >= 2
    /\ self.ax_mpr.curvature # self.curve_factor
    /\ generate_mpr(self).self.ax_mpr.image # self.ax_mpr.image

\* C10: no callback modifies the working volume (or the scan it was made
\* from): every step leaves every voxel as it was.
C10_VolumeNeverModified ==
    [][self'.data = self.data /\ self'.original_data = self.original_data]_vars

\* C10 witness: a reconstruction that sampled tissue ran, and the working
\* volume is still the normalised scan.
C10_Witness ==
    /\ last.op = "generate_mpr"
    /\ ShowsTissue(self)
    /\ self.data = NormalizeVolume(self.original_data)

\* C11: for every landmark list of 2 or more points and every curvature, the
\* first sample of the curve a builder returns is the first landmark and the
\* last sample is the last landmark: in the 2-point bulge (whose first and last
\* control points are start and end), in the N-point case, and when the spline
\* fit raises and the raw landmarks are returned.
C11_CurveEndsOnLandmarks ==
    (last.op \in {"create_curve", "create_curve_high_res"} /\ Len(self.points) >= 2) =>
        /\ Len(last.curve) >= 2
        /\ last.curve[1] = ToFloat(self.points[1])
        /\ last.curve[Len(last.curve)] = ToFloat(self.points[Len(self.points)])
        /\ last.control_points[1] = ToFloat(self.points[1])
        /\ last.control_points[Len(last.control_points)] =
              ToFloat(self.points[Len(self.points)])

\* C11 witness: a bulged 2-point path whose inner samples leave the landmarks.
C11_Witness ==
    /\ last.op = "create_curve_high_res"
    /\ Len(self.points) = 2
    /\ self.points[1] # self.points[2]
    /\ self.curve_factor = valmax
    /\ Len(last.control_points) = 5
    /\ last.curve[2] # ToFloat(self.points[1])
    /\ last.curve[Len(last.curve)] = ToFloat(self.points[2])

\* C18: with exactly 2 landmarks the builder uses exactly 5 control points:
\* start; start + 0.25*direction + 0.5*curvature*|direction|*perp;
\* mid + curvature*|direction|*perp; end - 0.25*direction +
\* 0.5*curvature*|direction|*perp; end, with perp the normalised
\* (-direction.y, direction.x, 0) when |direction.x| > |direction.z| and the
\* normalised (0, -direction.z, direction.y) otherwise (each coordinate to
\* within 2/SCALE of a voxel); with curvature 0 they are start,
\* start + direction/4, mid, end - direction/4 and end, all on the segment.
C18_FiveControlPoints ==
    (last.op \in {"create_curve", "create_curve_high_res"} /\ Len(self.points) = 2) =>
        LET start     == ToFloat(self.points[1])
            end       == ToFloat(self.points[2])
            direction == VSub(end, start)
            mid       == VScale(VAdd(start, end), 1, 2)
            perp      == Normalized(IF Abs(direction[1]) > Abs(direction[3])
                                    THEN <<-direction[2], direction[1], 0>>
                                    ELSE <<0, -direction[3], direction[2]>>)
            bulge     == Div(self.curve_factor * Norm(direction), 100)
            quarter   == VScale(direction, 1, 4)
            cp        == last.control_points
            Near(a, b) == \A k \in 1 .. 3 : Abs(a[k] - b[k]) <= 2
        IN  /\ Len(cp) = 5
            /\ cp[1] = start
            /\ cp[5] = end
            /\ Near(cp[2], VAdd(VAdd(start, quarter), VScale(perp, bulge, 2 * SCALE)))
            /\ Near(cp[3], VAdd(mid, VScale(perp, bulge, SCALE)))
            /\ Near(cp[4], VAdd(VSub(end, quarter), VScale(perp, bulge, 2 * SCALE)))
            /\ self.curve_factor = 0 =>
                  /\ cp[2] = VAdd(start, quarter)
                  /\ cp[3] = mid
                  /\ cp[4] = VSub(end, quarter)

\* C18 witness: a bulge built at full curvature in the (0, -dz, dy) branch.
C18_Witness ==
    /\ last.op = "create_curve_high_res"
    /\ Len(self.points) = 2
    /\ self.curve_factor = valmax
    /\ Abs(self.points[2][1] - self.points[1][1]) <= Abs(self.points[2][3] - self.points[1][3])
    /\ self.points[2][3] # self.points[1][3]
    /\ last.control_points[3] # VScale(VAdd(ToFloat(self.points[1]), ToFloat(self.points[2])), 1, 2)

\* C19: for two distinct landmarks the perpendicular chosen by the
\* |direction.x| > |direction.z| test is non-zero and orthogonal to direction
\* in both branches (so a positive curvature moves the middle control point off
\* the segment); it is the zero vector exactly when the two landmarks are the
\* same voxel, and then all five control points are that voxel whatever the
\* curvature.
C19_PerpendicularNonZero ==
    (last.op \in {"create_curve", "create_curve_high_res"} /\ Len(self.points) = 2) =>
        LET start         == ToFloat(self.points[1])
            end           == ToFloat(self.points[2])
            direction     == VSub(end, start)
            perpendicular == Perpendicular(direction)
            cp            == last.control_points
        IN  /\ (perpendicular = <<0, 0, 0>>) <=> (self.points[1] = self.points[2])
            /\ Dot(perpendicular, direction) = 0
            /\ self.points[1] # self.points[2] =>
                  /\ Normalized(perpendicular) # <<0, 0, 0>>
                  /\ self.curve_factor > 0 => cp[3] # VScale(VAdd(start, end), 1, 2)
            /\ self.points[1] = self.points[2] => \A n \in 1 .. 5 : cp[n] = start

\* C19 witness: two distinct landmarks that differ along y only (the second
\* branch with direction.z = 0), bulged.
C19_Witness ==
    /\ last.op = "create_curve_high_res"
    /\ Len(self.points) = 2
    /\ self.points[1][1] = self.points[2][1]
    /\ self.points[1][3] = self.points[2][3]
    /\ self.points[1][2] # self.points[2][2]
    /\ self.curve_factor > 0
    /\ last.control_points[3][3] # ToFloat(self.points[1])[3]

\* C20: for two distinct landmarks the middle control point lies
\* curvature * |end - start| off the segment and the two quarter control points
\* half of that (to within 2/SCALE of a voxel plus 1/16 of the value, the
\* rounding of the fixed-point arithmetic), the built path stays on the
\* segment at curvature 0, and among the curvatures a session can be brought to
\* a larger one gives a path whose largest distance from the line start-end is
\* strictly larger.
C20_DeviationGrowsWithCurvature ==
    ( /\ last.op \in {"create_curve", "create_curve_high_res"}
      /\ Len(self.points) = 2
      /\ self.points[1] # self.points[2] ) =>
        LET start     == ToFloat(self.points[1])
            end       == ToFloat(self.points[2])
            direction == VSub(end, start)
            voxels    == VSub(self.points[2], self.points[1])
            mid       == VScale(VAdd(start, end), 1, 2)
            quarter   == VScale(direction, 1, 4)
            cp        == last.control_points
            bulge     == Div(self.curve_factor * Norm(direction), 100)
            Distance(p) ==
                Div(Norm(Cross(VSub(p, start), voxels)) * SCALE, Norm(direction))
            Deviation(curve) == SetMax({Distance(curve[i]) : i \in DOMAIN curve})
            Rebuilt(cf) ==
                IF last.op = "create_curve"
                THEN create_curve([self EXCEPT !.curve_factor = cf])
                ELSE create_curve_high_res([self EXCEPT !.curve_factor = cf])
            Close(a, b) == Abs(a - b) <= 2 + b \div 16
        IN  /\ Close(Norm(VSub(cp[3], mid)), bulge)
            /\ Close(Norm(VSub(cp[2], VAdd(start, quarter))), Div(bulge, 2))
            /\ Close(Norm(VSub(cp[4], VSub(end, quarter))), Div(bulge, 2))
            /\ Close(Distance(cp[3]), bulge)
            /\ self.curve_factor = 0 => Deviation(last.curve) <= 2
            /\ \A cf \in Curvatures(self.kind) :
                  cf > self.curve_factor => Deviation(Rebuilt(cf)) > Deviation(last.curve)

\* C20 witness: a diagonal pair of landmarks at a curvature strictly between
\* the ends of the slider, the path off the segment.
C20_Witness ==
    /\ last.op = "create_curve_high_res"
    /\ Len(self.points) = 2
    /\ self.points[1][1] # self.points[2][1]
    /\ self.points[1][2] # self.points[2][2]
    /\ self.curve_factor > valmin
    /\ self.curve_factor < valmax
    /\ \E i \in DOMAIN last.curve :
          Cross(VSub(last.curve[i], ToFloat(self.points[1])),
                VSub(self.points[2], self.points[1])) # <<0, 0, 0>>

\* C12: for every sample of a reconstructed curve whose tangent is non-zero,
\* the normal compute_normals returns is the normalised cross product of the
\* unit tangent with (0, 0, 1) when |tangent.z| < 0.9 and with (1, 0, 0)
\* otherwise; that cross product is not the zero vector and its dot product
\* with the tangent is 0; tangent and normal have length 1 and are
\* perpendicular (to within the rounding of the fixed-point arithmetic).
C12_NormalPerpendicularToTangent ==
    (last.op = "generate_mpr" /\ Len(last.normals) > 0) =>
        /\ Len(last.normals) = Len(last.curve)
        /\ \A i \in DOMAIN last.curve :
              LET tangent   == Normalized(Tangent(last.curve, i))
                  reference == IF 10 * Abs(tangent[3]) < 9 * SCALE
                               THEN <<0, 0, 1>> ELSE <<1, 0, 0>>
                  cross     == Cross(tangent, reference)
                  normal    == last.normals[i]
              IN  Tangent(last.curve, i) # <<0, 0, 0>> =>
                    /\ cross # <<0, 0, 0>>
                    /\ Dot(tangent, cross) = 0
                    /\ normal = Normalized(cross)
                    /\ Abs(Norm(tangent) - SCALE) <= 2
                    /\ Abs(Norm(normal) - SCALE) <= 2
                    /\ Abs(Dot(tangent, normal)) <= 2 * SCALE

\* C12 witness: a curve with one tangent steeper than 0.9 along z (reference
\* (1, 0, 0)) and one flatter (reference (0, 0, 1)), its normals computed.
C12_Witness ==
    /\ last.op = "generate_mpr"
    /\ Len(last.normals) > 0
    /\ \E i \in DOMAIN last.curve :
          /\ 10 * Abs(Normalized(Tangent(last.curve, i))[3]) >= 9 * SCALE
          /\ last.normals[i][1] = 0
          /\ last.normals[i] # <<0, 0, 0>>
    /\ \E i \in DOMAIN last.curve :
          /\ Tangent(last.curve, i) # <<0, 0, 0>>
          /\ 10 * Abs(Normalized(Tangent(last.curve, i))[3]) < 9 * SCALE
          /\ last.normals[i][3] = 0

\* C13: every cell the resampling loop has visited whose sample point
\* center_i + normal_i * offset_j is outside [0, extent_k - 1) on some axis k
\* (negative, or extent_k - 1 or more) holds 0, and the loop raises nothing.
C13_OutOfBoundsCellsAreZero ==
    (last.op = "generate_mpr" /\ Len(last.visits) > 0) =>
        /\ ~last.raised
        /\ \A j \in DOMAIN last.visits : \A i \in DOMAIN last.visits[j] :
              LET sample_point ==
                      SamplePoint(last.curve[i], last.normals[i],
                                  WidthRange(self.mpr_height, j))
                  outside ==
                      \E k \in 1 .. 3 : \/ sample_point[k] < 0
                                        \/ sample_point[k] >= (Shape[k] - 1) * SCALE
              IN  (last.visits[j][i] > 0 /\ outside) => last.mpr_image[j][i] = 0

\* C13 witness: the loop is through; one cell's sample point lies on the last
\* voxel plane (a coordinate of exactly extent - 1, tissue there) and holds 0,
\* another's has a negative coordinate.
C13_Witness ==
    /\ last.op = "generate_mpr"
    /\ last.pc = "enhance"
    /\ \E j \in DOMAIN last.visits : \E i \in DOMAIN last.visits[j] :
          LET sample_point ==
                  SamplePoint(last.curve[i], last.normals[i], WidthRange(self.mpr_height, j))
          IN  /\ \E k \in 1 .. 3 : sample_point[k] = (Shape[k] - 1) * SCALE
              /\ \A k \in 1 .. 3 : sample_point[k] \in 0 .. (Shape[k] - 1) * SCALE
              /\ map_coordinates(self.data, sample_point) > 0
              /\ last.mpr_image[j][i] = 0
    /\ \E j \in DOMAIN last.visits : \E i \in DOMAIN last.visits[j] :
          \E k \in 1 .. 3 :
              SamplePoint(last.curve[i], last.normals[i],
                          WidthRange(self.mpr_height, j))[k] < 0

\* C14: when the resampling loop is through, the image has mpr_height rows and
\* one column per curve sample; cell [j, i] holds the sample taken at curve
\* position i, offset j along that position's normal; and the offsets are
\* mpr_height evenly spaced values from -height/2 to +height/2, symmetric about
\* the path: offset[j] = -offset[height - 1 - j]. The end values and the
\* spacing are compared to within the rounding of the fixed-point offsets.
C14_ImageShapeAndOffsets ==
    (last.op = "generate_mpr" /\ last.pc \in {"enhance", "show", "returned"}
                              /\ Len(self.points) >= 2) =>
        LET height      == self.mpr_height
            offset(j)   == WidthRange(height, j)
            Sampled(p)  ==
                IF \A k \in 1 .. 3 : 0 <= p[k] /\ p[k] < (Shape[k] - 1) * SCALE
                THEN map_coordinates(self.data, p) ELSE 0
        IN  /\ Len(last.mpr_image) = height
            /\ \A j \in 1 .. height :
                  /\ Len(last.mpr_image[j]) = Len(last.curve)
                  /\ offset(j) = -offset(height + 1 - j)
                  /\ j < height =>
                        Abs((offset(j + 1) - offset(j)) - Div(height * SCALE, height - 1)) <= 2
                  /\ \A i \in 1 .. Len(last.curve) :
                        last.mpr_image[j][i] =
                            Sampled(SamplePoint(last.curve[i], last.normals[i], offset(j)))
            /\ Abs(2 * offset(1) + height * SCALE) <= 2
            /\ Abs(2 * offset(height) - height * SCALE) <= 2

\* C14 witness: a finished image with more columns than rows whose first and
\* last rows (the two sides of the path) differ.
C14_Witness ==
    /\ last.op = "generate_mpr"
    /\ last.pc = "enhance"
    /\ Len(last.curve) > self.mpr_height
    /\ Len(last.mpr_image) = self.mpr_height
    /\ last.mpr_image[1] # last.mpr_image[self.mpr_height]

\* C15: the enhancer applied to a reconstructed image whose maximum is not
\* greater than 0 (the all-zero image) returns it unchanged, cell for cell, and
\* enhancing the result again changes nothing.
C15_EnhanceKeepsZeroImage ==
    (last.op = "generate_mpr" /\ last.pc \in {"show", "returned"}
                              /\ Len(self.points) >= 2
                              /\ ImageMax(last.mpr_image) <= 0) =>
        /\ last.mpr_enhanced = last.mpr_image
        /\ Enhance(self, last.mpr_enhanced) = last.mpr_enhanced
        /\ \A j \in DOMAIN last.mpr_enhanced : \A i \in DOMAIN last.mpr_enhanced[j] :
              last.mpr_enhanced[j][i] = 0

\* C15 witness: an all-zero image resampled from a scan that has tissue (every
\* sample point fell outside the bounds), enhanced.
C15_Witness ==
    /\ last.op = "generate_mpr"
    /\ last.pc = "show"
    /\ VolMax(self.data) > 0
    /\ ImageMax(last.mpr_image) = 0
    /\ last.mpr_enhanced = last.mpr_image

\* C16: for every reconstructed image with at least one positive value, every
\* cell of the enhanced image lies in [0, 1] and the enhanced image has the
\* shape of the input, also when the 1st and 99th percentiles of the positive
\* values coincide.
C16_EnhancedWithinUnitRange ==
    (last.op = "generate_mpr" /\ last.pc \in {"show", "returned"}
                              /\ Len(self.points) >= 2
                              /\ ImageMax(last.mpr_image) > 0) =>
        /\ DOMAIN last.mpr_enhanced = DOMAIN last.mpr_image
        /\ \A j \in DOMAIN last.mpr_image :
              /\ DOMAIN last.mpr_enhanced[j] = DOMAIN last.mpr_image[j]
              /\ \A i \in DOMAIN last.mpr_image[j] :
                    /\ last.mpr_enhanced[j][i] >= 0
                    /\ last.mpr_enhanced[j][i] <= SCALE

\* C16 witness: an enhanced image whose positive input values have equal 1st
\* and 99th percentiles, beside a zero cell.
C16_Witness ==
    /\ last.op = "generate_mpr"
    /\ last.pc = "show"
    /\ ImageMax(last.mpr_image) > 0
    /\ Percentile(SortedPositive(last.mpr_image), 1) =
          Percentile(SortedPositive(last.mpr_image), 99)
    /\ \E j \in DOMAIN last.mpr_image : \E i \in DOMAIN last.mpr_image[j] :
          last.mpr_image[j][i] = 0

\* C17: a reconstruction requested with 2 or more landmarks always runs to
\* completion: from the entry of generate_mpr control eventually returns to the
\* session, nothing is raised on the way, no cell of the image is visited
\* twice, and on return every one of the (curve samples x cross-section
\* height) cells has been visited exactly once and an image is displayed.
C17_ReconstructionCompletes ==
    /\ (last.op = "generate_mpr" /\ last.pc = "guard" /\ Len(self.points) >= 2)
           ~> (last.pc = "returned" /\ self.ax_mpr.kind = "image")
    /\ [](Len(self.points) >= 2 =>
            /\ ~last.raised
            /\ last.pc \in {"guard", "create_curve_high_res", "compute_normals",
                            "resample", "enhance", "show", "returned"}
            /\ last.pc = "resample" =>
                  /\ last.i \in 1 .. Len(last.curve)
                  /\ last.j \in 1 .. self.mpr_height
            /\ \A j \in DOMAIN last.visits : \A i \in DOMAIN last.visits[j] :
                  last.visits[j][i] <= 1
            /\ last.pc \in {"enhance", "show", "returned"} =>
                  /\ Len(last.curve) >= 2
                  /\ DOMAIN last.visits = 1..self.mpr_height
                  /\ \A j \in DOMAIN last.visits :
                        /\ DOMAIN last.visits[j] = 1..Len(last.curve)
                        /\ \A i \in DOMAIN last.visits[j] : last.visits[j][i] = 1
                  /\ last.mpr_image = extract_mpr(self, last.curve)
            /\ last.pc = "returned" =>
                  /\ self.ax_mpr.kind = "image"
                  /\ self.ax_mpr.image = last.mpr_enhanced)

\* C17 witness: control is back in the session after a reconstruction over 3
\* landmarks, every cell visited once and tissue on display.
C17_Witness ==
    /\ last.op = "generate_mpr"
    /\ last.pc = "returned"
    /\ Len(self.points) = 3
    /\ ShowsTissue(self)
    /\ \A j \in DOMAIN last.visits : \A i \in DOMAIN last.visits[j] :
          last.visits[j][i] = 1

\* C21: with 3 or more landmarks the control points are the landmarks in
\* insertion order, and a second session over the same scan holding the same
\* landmarks at any other curvature has the same preview curve, the same
\* high-resolution curve and the same reconstructed image (raw and enhanced).
C21_CurvatureIgnoredFromThreeLandmarks ==
    (last.op = "generate_mpr" /\ last.pc = "returned" /\ Len(self.points) >= 3) =>
        /\ ControlPoints(self) = [i \in 1 .. Len(self.points) |-> ToFloat(self.points[i])]
        /\ \A cf \in Curvatures(self.kind) :
              LET other == FreshSession(self.kind, self.original_data, self.points, cf)
              IN  /\ other.points = self.points
                  /\ other.curve_factor = cf
                  /\ ControlPoints(other) = ControlPoints(self)
                  /\ create_curve(other) = create_curve(self)
                  /\ create_curve_high_res(other) = last.curve
                  /\ extract_mpr(other, create_curve_high_res(other)) = last.mpr_image
                  /\ generate_mpr(other).self.ax_mpr.image = self.ax_mpr.image

\* C21 witness: a reconstruction over 3 landmarks fitted by the spline, at a
\* curvature other than the initial one, showing tissue.
C21_Witness ==
    /\ last.op = "generate_mpr"
    /\ last.pc = "returned"
    /\ Len(self.points) = 3
    /\ Len(last.curve) = self.mpr_points
    /\ self.curve_factor # InitialCurveFactor(self.kind)
    /\ self.curve_factor > 0
    /\ ShowsTissue(self)

\* The spline fit of a builder call raised (the except branch ran).
SplineFitFailed ==
    /\ last.op \in {"create_curve", "create_curve_high_res"}
    /\ Len(self.points) >= 2
    /\ SplprepRaises(last.control_points, Min(3, Len(last.control_points) - 1))

\* C22 as stated: when the spline fit fails the builder raises nothing and the
\* curve it returns is the control points: the 5 bulge control points for 2
\* landmarks, the landmark list for 3 or more.
C22_FallbackIsControlPoints ==
    SplineFitFailed => (~last.raised /\ last.curve = last.control_points)

\* C22 amended: when the spline fit fails the builder raises nothing and the
\* curve it returns is the landmark list itself: the 2 landmarks in the 2-point
\* case (not the 5 bulge control points), the landmarks, which are the control
\* points, for 3 or more; the session is as it was and its callbacks still
\* return without raising.
C22_FallbackIsLandmarks ==
    SplineFitFailed =>
        /\ ~last.raised
        /\ last.curve = [i \in 1 .. Len(self.points) |-> ToFloat(self.points[i])]
        /\ Len(self.points) = 2 => (Len(last.control_points) = 5 /\ Len(last.curve) = 2)
        /\ Len(self.points) >= 3 => last.curve = last.control_points
        /\ ~update_display(self).raised
        /\ ~generate_mpr(self).raised
        /\ generate_mpr(self).self.ax_mpr.kind = "image"
        /\ \A event \in ClickEvents : ~on_click(self, event).raised

\* C22 witness: the high-resolution builder called on two identical landmarks
\* at a positive curvature: 5 coinciding control points, a 2-sample curve.
C22_Witness ==
    /\ last.op = "create_curve_high_res"
    /\ Len(self.points) = 2
    /\ self.points[1] = self.points[2]
    /\ self.curve_factor > 0
    /\ Len(last.control_points) = 5
    /\ Len(last.curve) = 2

\* The samples compute_normals reads for the tangent at sample i of a curve of
\* n samples (1-based): curve[i+1] and curve[i] at the first, curve[i] and
\* curve[i-1] at the last, curve[i+1] and curve[i-1] in between.
TangentReads(i, n) ==
    IF i = 1 THEN {i + 1, i} ELSE IF i = n THEN {i, i - 1} ELSE {i + 1, i - 1}

\* C23: a reconstruction requested on any list of 2 or more landmarks
\* (repeated, collinear, or failing the spline fit) raises nothing: the curve
\* handed to compute_normals has at least 2 samples, every tangent reads
\* inside the curve, a zero-length tangent gives the zero normal, and the
\* callback returns with an image displayed.
C23_DegenerateListsDoNotCrash ==
    (last.op = "generate_mpr" /\ Len(self.points) >= 2) =>
        /\ ~last.raised
        /\ last.pc # "raised"
        /\ last.pc \in {"compute_normals", "resample", "enhance", "show", "returned"} =>
              /\ Len(last.curve) >= 2
              /\ \A i \in 1 .. Len(last.curve) :
                    TangentReads(i, Len(last.curve)) \subseteq DOMAIN last.curve
        /\ last.pc \in {"resample", "enhance", "show", "returned"} =>
              /\ Len(last.normals) = Len(last.curve)
              /\ \A i \in 1 .. Len(last.curve) :
                    Norm(Tangent(last.curve, i)) = 0 => last.normals[i] = <<0, 0, 0>>
        /\ last.pc = "returned" => self.ax_mpr.kind = "image"

\* C23 witness: a finished reconstruction over 3 landmarks, the first repeated,
\* whose spline fit failed and whose first normal is the zero vector.
C23_Witness ==
    /\ last.op = "generate_mpr"
    /\ last.pc = "returned"
    /\ Len(self.points) = 3
    /\ self.points[1] = self.points[2]
    /\ self.points[2] # self.points[3]
    /\ SplprepRaises(ControlPoints(self), Min(3, Len(ControlPoints(self)) - 1))
    /\ last.normals[1] = <<0, 0, 0>>
    /\ last.normals[3] # <<0, 0, 0>>
    /\ self.ax_mpr.kind = "image"

\* C24: compute_normals returns one frame per curve sample, computed from the
\* tangent curve[1]-curve[0] at the first sample, curve[n-1]-curve[n-2] at the
\* last and (curve[i+1]-curve[i-1])/2 at every interior sample; the frames are
\* a function of the curve alone: computing them again gives the same frames,
\* and the session is the same before and after.
C24_OneFramePerSample ==
    (last.op = "generate_mpr" /\ Len(self.points) >= 2
        /\ last.pc \in {"resample", "enhance", "show"}) =>
        LET curve == last.curve
            n     == Len(curve)
            tangent(i) ==
                IF i = 1 THEN <<curve[2][1] - curve[1][1], curve[2][2] - curve[1][2],
                                curve[2][3] - curve[1][3]>>
                ELSE IF i = n
                THEN <<curve[n][1] - curve[n - 1][1], curve[n][2] - curve[n - 1][2],
                       curve[n][3] - curve[n - 1][3]>>
                ELSE <<Div(curve[i + 1][1] - curve[i - 1][1], 2),
                       Div(curve[i + 1][2] - curve[i - 1][2], 2),
                       Div(curve[i + 1][3] - curve[i - 1][3], 2)>>
        IN  /\ DOMAIN last.normals = 1 .. n
            /\ \A i \in 1 .. n :
                  /\ Tangent(curve, i) = tangent(i)
                  /\ last.normals[i] = NormalOf(Normalized(tangent(i)))
            /\ compute_normals(curve) = last.normals
            /\ self = FreshSession(self.kind, self.original_data, self.points,
                                   self.curve_factor)

\* C24 witness: frames of a bent curve, with an interior sample whose central
\* difference is not its forward difference and whose frame has a normal.
C24_Witness ==
    /\ last.op = "generate_mpr"
    /\ last.pc = "resample"
    /\ Len(last.curve) >= 3
    /\ Len(last.normals) = Len(last.curve)
    /\ \E i \in 2 .. Len(last.curve) - 1 :
          /\ Tangent(last.curve, i) # VSub(last.curve[i + 1], last.curve[i])
          /\ last.normals[i] # <<0, 0, 0>>
          /\ last.normals[i] #
                NormalOf(Normalized(VSub(last.curve[i + 1], last.curve[i])))

\* The resampling loop of a reconstruction over a scan whose voxels all hold
\* the same positive value is through.
ResampledUniformScan ==
    /\ last.op = "generate_mpr"
    /\ last.pc \in {"enhance", "show", "returned"}
    /\ Len(self.points) >= 2
    /\ VolMin(self.original_data) = VolMax(self.original_data)
    /\ VolMax(self.original_data) > 0

\* The sample point of cell [j, i] of the image being reconstructed.
CellSamplePoint(j, i) ==
    SamplePoint(last.curve[i], last.normals[i], WidthRange(self.mpr_height, j))

\* C25 as stated: over a scan whose voxels all hold the same positive value v,
\* the raw image holds v in every cell whose sample point passes the bounds
\* check and 0 in every other cell.
C25_UniformScanGivesUniformImage ==
    ResampledUniformScan =>
        \A j \in DOMAIN last.mpr_image : \A i \in DOMAIN last.mpr_image[j] :
            last.mpr_image[j][i] =
                IF InBounds(CellSamplePoint(j, i))
                THEN VolMax(self.original_data) * SCALE ELSE 0

\* C25 amended: over a scan whose voxels all hold the same positive value v,
\* the working volume the constructor keeps is 0 in every voxel, and the raw
\* image holds the working volume's value, 0 and not v, in every cell whose
\* sample point passes the bounds check, and 0 in every other cell.
C25_UniformScanGivesZeroImage ==
    ResampledUniformScan =>
        /\ \A c \in DOMAIN self.data : self.data[c] = 0
        /\ \A j \in DOMAIN last.mpr_image : \A i \in DOMAIN last.mpr_image[j] :
              /\ last.mpr_image[j][i] = 0
              /\ InBounds(CellSamplePoint(j, i)) =>
                    last.mpr_image[j][i] = map_coordinates(self.data, CellSamplePoint(j, i))

\* C25 witness: the raw image of a uniform scan with a cell whose sample point
\* passes the bounds check and a cell whose sample point does not.
C25_Witness ==
    /\ ResampledUniformScan
    /\ last.pc = "enhance"
    /\ \E j \in DOMAIN last.mpr_image : \E i \in DOMAIN last.mpr_image[j] :
          InBounds(CellSamplePoint(j, i)) /\ last.mpr_image[j][i] = 0
    /\ \E j \in DOMAIN last.mpr_image : \E i \in DOMAIN last.mpr_image[j] :
          ~InBounds(CellSamplePoint(j, i))

\* The enhancer has run on an image whose positive cells all hold the same
\* value.
EnhancedEqualPositives ==
    /\ last.op = "generate_mpr"
    /\ last.pc \in {"show", "returned"}
    /\ Len(self.points) >= 2
    /\ ImageMax(last.mpr_image) > 0
    /\ \A j \in DOMAIN last.mpr_image : \A i \in DOMAIN last.mpr_image[j] :
          last.mpr_image[j][i] \in {0, ImageMax(last.mpr_image)}

\* C26 as stated: the enhancer applied to an image whose positive cells all
\* hold the same value raises nothing and returns an image in which those cells
\* are all 1.0.
C26_EqualPositivesBecomeOne ==
    EnhancedEqualPositives =>
        /\ ~last.raised
        /\ \A j \in DOMAIN last.mpr_image : \A i \in DOMAIN last.mpr_image[j] :
              last.mpr_image[j][i] > 0 => last.mpr_enhanced[j][i] = SCALE

\* C26 amended: the enhancer applied to an image whose positive cells all hold
\* the same value raises nothing and returns an image of the same shape in
\* which those cells, like every other cell, are 0.0, a value within [0, 1].
C26_EqualPositivesBecomeZero ==
    EnhancedEqualPositives =>
        /\ ~last.raised
        /\ Percentile(SortedPositive(last.mpr_image), 1) =
              Percentile(SortedPositive(last.mpr_image), 99)
        /\ DOMAIN last.mpr_enhanced = DOMAIN last.mpr_image
        /\ \A j \in DOMAIN last.mpr_image :
              /\ DOMAIN last.mpr_enhanced[j] = DOMAIN last.mpr_image[j]
              /\ \A i \in DOMAIN last.mpr_image[j] : last.mpr_enhanced[j][i] = 0

\* C26 witness: an enhanced image with two or more positive cells, all of one
\* value, beside a zero cell.
C26_Witness ==
    /\ EnhancedEqualPositives
    /\ last.pc = "show"
    /\ Len(SortedPositive(last.mpr_image)) >= 2
    /\ \E j \in DOMAIN last.mpr_image : \E i \in DOMAIN last.mpr_image[j] :
          last.mpr_image[j][i] = 0
    /\ \E j \in DOMAIN last.mpr_image : \E i \in DOMAIN last.mpr_image[j] :
          last.mpr_image[j][i] > 0 /\ last.mpr_enhanced[j][i] = 0

\* C27: with 2 or more landmarks the preview curve and the high-resolution
\* curve are the same fit (the same control points, the same degree
\* min(3, control points - 1), the same curvature, the same fallback) sampled
\* PreviewSamples and mpr_points times: with equal sample counts they are the
\* same curve, and each comes out the same whether or not a preview curve has
\* been computed and put on display before.
C27_PreviewAndHighResSameFit ==
    (last.op \in {"create_curve", "create_curve_high_res"} /\ Len(self.points) >= 2) =>
        LET control_points == ControlPoints(self)
            k              == Min(3, Len(control_points) - 1)
            Fit(n) == IF SplprepRaises(control_points, k)
                      THEN [i \in 1 .. Len(self.points) |-> ToFloat(self.points[i])]
                      ELSE [j \in 1 .. n |-> splev(j, n, splprep(control_points, k))]
            no_preview == [self EXCEPT !.line = <<>>]
        IN  /\ last.control_points = control_points
            /\ last.curve = Fit(IF last.op = "create_curve" THEN PreviewSamples
                                ELSE self.mpr_points)
            /\ create_curve(self) = Fit(PreviewSamples)
            /\ create_curve_high_res(self) = Fit(self.mpr_points)
            /\ self.mpr_points = PreviewSamples =>
                  create_curve(self) = create_curve_high_res(self)
            /\ create_curve(no_preview) = create_curve(self)
            /\ create_curve_high_res(no_preview) = create_curve_high_res(self)

\* C27 witness: the high-resolution curve of a bulged 2-point path with a
\* preview on display, the two curves sampled a different number of times.
C27_Witness ==
    /\ last.op = "create_curve_high_res"
    /\ Len(self.points) = 2
    /\ self.points[1] # self.points[2]
    /\ self.curve_factor > 0
    /\ Len(self.line) = PreviewSamples
    /\ Len(last.curve) = self.mpr_points
    /\ self.mpr_points # PreviewSamples
    /\ last.curve # self.line

\* C28: the aorta viewer and the spine viewer, constructed over the same scan
\* and driven by the same callbacks, hold the same landmark list after every
\* step, end every callback the same way and accept or refuse every
\* reconstruction alike; they differ in the tuning constants (initial
\* curvature, cross-section height, sample count, gamma) and in what is
\* computed from them: once the slider has given both the same curvature, the
\* preview curves are the same as well.
C28_ViewersRunSameSession ==
    LET twin == last.twin
    IN  /\ self.kind = "aorta" /\ twin.kind = "spine"
        /\ twin.original_data = self.original_data
        /\ twin.data = self.data
        /\ twin.points = self.points
        /\ twin.points_plot = self.points_plot
        /\ last.twin_raised = last.raised
        /\ twin.ax_mpr.kind = self.ax_mpr.kind
        /\ twin.info_text.n = self.info_text.n
        /\ Len(twin.line) = Len(self.line)
        /\ <<twin.current_slice_ax, twin.current_slice_cor, twin.current_slice_sag>> =
              <<self.current_slice_ax, self.current_slice_cor, self.current_slice_sag>>
        /\ self.mpr_height = MprHeight("aorta") /\ twin.mpr_height = MprHeight("spine")
        /\ self.mpr_points = MprPoints("aorta") /\ twin.mpr_points = MprPoints("spine")
        /\ \/ /\ self.curve_factor = InitialCurveFactor("aorta")
              /\ twin.curve_factor = InitialCurveFactor("spine")
           \/ twin.curve_factor = self.curve_factor
        /\ twin.curve_factor = self.curve_factor => twin.line = self.line
        /\ twin.info_text.curvature = self.info_text.curvature =>
              twin.info_text = self.info_text
        /\ self.ax_mpr.kind = "image" =>
              /\ Len(self.ax_mpr.image) = self.mpr_height
              /\ Len(twin.ax_mpr.image) = twin.mpr_height

\* C28 witness: both viewers have just accepted a reconstruction over the same
\* two landmarks, each at its own initial curvature, with different previews.
C28_Witness ==
    /\ last.op = "generate_mpr"
    /\ Len(self.points) = 2
    /\ last.twin.points = self.points
    /\ self.ax_mpr.kind = "image"
    /\ last.twin.ax_mpr.kind = "image"
    /\ self.curve_factor # last.twin.curve_factor
    /\ self.line # last.twin.line
    /\ self.ax_mpr.image # last.twin.ax_mpr.image

\* C29: add-point, undo and a curvature change leave the reconstruction panel
\* and the working volume as they are (none of them runs a reconstruction); a
\* curvature change keeps the landmarks and redraws the preview curve exactly
\* when there are 2 or more of them; the panel changes only in a generate
\* request, which leaves the warning or an image, or in clear, which leaves it
\* cleared.
C29_OnlyGenerateAndClearChangeImage ==
    [][ /\ last'.op \in {"on_click", "undo_last", "update_curve_factor"} =>
              (self'.ax_mpr = self.ax_mpr /\ self'.data = self.data)
        /\ last'.op = "update_curve_factor" =>
              /\ self'.points = self.points
              /\ self'.points_plot = self.points_plot
              /\ IF Len(self.points) >= 2
                 THEN self'.line = create_curve(self')
                 ELSE self'.line = self.line /\ self'.info_text = self.info_text
        /\ self'.ax_mpr # self.ax_mpr => last'.op \in {"generate_mpr", "clear_points"}
        /\ last'.op = "clear_points" => self'.ax_mpr = ClearedDisplay
        /\ last'.op = "generate_mpr" =>
              self'.ax_mpr.kind = (IF Len(self.points) < 2 THEN "warning" ELSE "image")
      ]_vars

\* C29 witness: an image on display after a curvature change: it still carries
\* the curvature it was reconstructed at, while the preview follows the slider.
C29_Witness ==
    /\ last.op = "update_curve_factor"
    /\ Len(self.points) >= 2
    /\ self.ax_mpr.kind = "image"
    /\ self.ax_mpr.curvature # self.curve_factor
    /\ ShowsTissue(self)
    /\ self.line = create_curve(self)

\* C30: in the focus-navigation viewer, after any sequence of the number,
\* next, previous, plus, minus and reset keys, the transparency level is in
\* 1 .. 4 and the focus is none or a vertebra of 1 .. N; the level changes only
\* in a key pressed while a vertebra is focused; next at vertebra N and
\* previous at vertebra 1 leave the focus (and everything else) as it is; and
\* reset leaves no focus and level 2.
C30_FocusAndTransparencyInRange ==
    /\ [](/\ self.transparency_level \in 1 .. 4
          /\ self.current_focus = None \/ self.current_focus \in 1 .. self.vertebrae
          /\ self.transparency_level # last.level_before => last.focus_before # None
          /\ (last.op = "Next" /\ last.focus_before # None
                 /\ last.focus_before = self.vertebrae) =>
                self.current_focus = last.focus_before
          /\ (last.op = "Prior" /\ last.focus_before = 1) =>
                self.current_focus = last.focus_before
          /\ last.op = "r" => (self.current_focus = None /\ self.transparency_level = 2))
    /\ [][ /\ self'.vertebrae = self.vertebrae
           /\ self'.transparency_level # self.transparency_level =>
                 self.current_focus # None
           /\ (last'.op = "Next" /\ self.current_focus # None
                  /\ self.current_focus = self.vertebrae) => self' = self
           /\ (last'.op = "Prior" /\ self.current_focus = 1) => self' = self
           /\ last'.op = "r" => self' = FocusViewer(self.vertebrae)
         ]_vars

\* C30 witness: Page Down pressed at the last of several vertebrae with the
\* other parts hidden: the focus stays on it, the level stays 4.
C30_Witness ==
    /\ last.op = "Next"
    /\ self.vertebrae >= 2
    /\ last.focus_before = self.vertebrae
    /\ self.current_focus = self.vertebrae
    /\ self.transparency_level = 4
    /\ ~self.other_visible

============================================================================
